---------------------------- MODULE Spec2Model ----------------------------
(***************************************************************************)
(* parkerbot (src/main.py): a Matrix bot that mirrors YouTube links shared *)
(* in a room into one YouTube playlist per Monday-to-Sunday week.          *)
(*                                                                         *)
(* The model follows message_callback statement by statement, one action  *)
(* per database statement or remote call, together with backwards_sync    *)
(* and the part of main that runs them.  The three sqlite tables, the      *)
(* remote playlist service and the chat room are the state.                *)
(*                                                                         *)
(* Reading of the source: datetime.UTC (lines 107, 197, 199) is read as    *)
(* the UTC time zone, datetime.timezone.utc.  Timestamps are milliseconds  *)
(* since the epoch; the sample timestamps lie in January 1970 so that      *)
(* every intermediate value fits TLC's 32-bit integers.                    *)
(***************************************************************************)
EXTENDS Integers, Sequences, FiniteSets, TLC

VARIABLES
    messages,        \* table messages: row i has id i (AUTOINCREMENT, no DELETE)
    playlists,       \* table playlists: row i has id i
    playlist_tracks, \* table playlist_tracks: set of [playlist_id, message_id]
    createCalls,     \* remote: every playlists().insert call, in order
    appendCalls,     \* remote: every playlistItems().insert call, in order
    phase,           \* main: "backfill" | "returned" | "live" | "down"
    from_token,      \* backwards_sync: from_token
    response_end,    \* backwards_sync: response.end of the page being processed
    fetchLog,        \* every room_messages call of this backwards_sync run
    pc,              \* message_callback: the statement it is at
    event,           \* message_callback: the event being (or last) processed
    playlist_id,     \* message_callback: playlist_id
    current_time,    \* message_callback: current_time, up to its last use (line 211)
    youtube_links,   \* message_callback: youtube_links
    li,              \* message_callback: position of the for loop in youtube_links
    message_row,     \* message_callback: message_row[0]
    attempt,         \* add_video_to_playlist: attempt
    sent,            \* room_send calls made while processing the current event
    printed,         \* lines printed while processing the current event
    nEvents,         \* number of events handed to message_callback
    waiting          \* the invocations of message_callback suspended at an await

vars == <<messages, playlists, playlist_tracks, createCalls, appendCalls,
          phase, from_token, response_end, fetchLog, pc, event, playlist_id,
          current_time, youtube_links, li, message_row, attempt, sent,
          printed, nEvents, waiting>>

db      == <<messages, playlists, playlist_tracks>>
remote  == <<createCalls, appendCalls>>
backfill == <<from_token, response_end, fetchLog>>
locals  == <<playlist_id, current_time, youtube_links, li, message_row, attempt>>
output  == <<sent, printed>>

-----------------------------------------------------------------------------
(* Bounds of the model *)

MaxEvents == 2
MaxFetch == 3

(* Program constants *)

retry_count == 3
FreshnessMs == 30000
MsPerDay == 86400000
EpochWeekday == 3

-----------------------------------------------------------------------------
(* Inputs *)

MATRIX_USER == "bot"
YOUTUBE_PLAYLIST_TITLE == "POW"
Senders == {"bot", "u1", "u2"}

\* A text (a body, a link, a video id) is a sequence of lexemes: the pieces of
\* text that youtube_link_pattern and the splits of line 221 tell apart.  The
\* video ids are "a", "b", "n"; "xyz" is a playlist id.
ShortA == <<"https://", "youtu.be/", "a">>
ShortN == <<"https://", "youtu.be/", "n">>
LongA == <<"https://", "www.", "youtube.com/", "watch?v=", "a">>
MusicA == <<"http://", "music.", "youtube.com/", "watch?v=", "a">>
LinkA == ShortA
LinkB == <<"https://", "youtu.be/", "b">>
LinkN == ShortN

\* The videos whose snippet.categoryId is "10".
MusicVideos == { <<"a">>, <<"b">> }

Bodies == { <<"!pow">>, <<" ", "!parkerbot">>,
            LinkN \o <<" ">> \o LinkA,
            <<"see", " ">> \o LinkA \o <<" ">> \o LinkB }

\* Bodies that carry video a in its link forms, a watch link with trailing
\* parameters, a link to a playlist, and a command.
TrailingParams == <<"&list=", "xyz">>
PlaylistOnly == <<"https://", "youtube.com/", "playlist?list=", "xyz">>
FormBodies == { LongA \o TrailingParams, PlaylistOnly, ShortA, MusicA, ShortN, <<"!pow">> }
FormSenders == {"u1", "u2"}
FormTimestamps == { 345600000 }

\* The events of the room's history that backwards_sync is given.
HistorySenders == {"u1"}
HistoryBodies == { <<"!pow">>, LinkN \o <<" ">> \o LinkA }
HistoryTimestamps == { 345600000 }

\* Mon 1970-01-05 00:00:00.000, Sun 1970-01-11 23:59:59.999, Mon 1970-01-12 00:00:00.000
Timestamps == { 345600000, 950399999, 950400000 }

\* Wall clock minus server timestamp, in ms, when the handler runs: a live event
\* is a few seconds old, a replayed one may be older.  The clock is read for
\* every event and used for a command only.
Ages == { 5000, 30000 }
LinkAges == { 5000 }

Cursors == { "c1", "c2" }
StartToken == "c0"
NoEnd == ""

NoEvent == [sender |-> "", body |-> <<>>, timestamp |-> 0, age |-> 0]
NoPlaylist == <<"none", 0>>
NoTime == -1

-----------------------------------------------------------------------------
(* Pure functions *)

\* Mutant of weekday: the week starts on Sunday (Sunday is 0).
weekday_SundayFirst(timestamp) == ((timestamp \div MsPerDay) + EpochWeekday + 1) % 7

\* datetime.fromtimestamp(ms / 1000, UTC).weekday(): Monday is 0; 1970-01-01 was a Thursday.
weekday(timestamp) == ((timestamp \div MsPerDay) + EpochWeekday) % 7

\* get_monday_date: the same time of day, weekday() days earlier.
get_monday_date(timestamp) == timestamp - weekday(timestamp) * MsPerDay

\* The proleptic Gregorian date <<year, month, day>> of a day number (days since
\* 1970-01-01), as datetime computes it.
CivilFromDays(days) ==
    LET z   == days + 719468
        era == z \div 146097
        doe == z - era * 146097
        yoe == (doe - (doe \div 1460) + (doe \div 36524) - (doe \div 146096)) \div 365
        doy == doe - (365 * yoe + (yoe \div 4) - (yoe \div 100))
        mp  == (5 * doy + 2) \div 153
        d   == doy - ((153 * mp + 2) \div 5) + 1
        m   == IF mp < 10 THEN mp + 3 ELSE mp - 9
        y   == yoe + era * 400 + (IF m <= 2 THEN 1 ELSE 0)
    IN  <<y, m, d>>

\* monday_date.strftime('%Y-%m-%d'): the date, without the time of day.
strftime(datetime) == CivilFromDays(datetime \div MsPerDay)

\* f"{YOUTUBE_PLAYLIST_TITLE} {monday_date.strftime('%Y-%m-%d')}"
playlist_title(monday_date) == <<YOUTUBE_PLAYLIST_TITLE>> \o strftime(monday_date)

\* The lexeme at position i of a text, "" past its end.
At(text, i) == IF i \in 1..Len(text) THEN text[i] ELSE ""

\* https?://
Schemes == {"http://", "https://"}

\* (?:www\.|music\.)
Hosts == {"www.", "music."}

\* Mutant of Words: the id is everything up to the next blank.
Words_NonBlank == {"a", "b", "n", "xyz", "see", "&list=", "watch?v=", "playlist?list="}

\* The lexemes that [\w-]+ matches as a whole.
Words == {"a", "b", "n", "xyz", "see"}

\* [\w-]+ is greedy: the position after the run of word lexemes that starts at i.
RECURSIVE WordRun(_, _)
WordRun(text, i) == IF At(text, i) \in Words THEN WordRun(text, i + 1) ELSE i

\* Mutant of MatchWatch: any path of youtube.com followed by an id.
MatchWatch_AnyPath(text, i) ==
    LET h == IF At(text, i + 1) \in Hosts THEN i + 2 ELSE i + 1
    IN  IF /\ At(text, i) \in Schemes
           /\ At(text, h) = "youtube.com/"
           /\ At(text, h + 1) \in {"watch?v=", "playlist?list="}
           /\ WordRun(text, h + 2) > h + 2
        THEN WordRun(text, h + 2)
        ELSE 0

\* https?://(?:www\.|music\.)?youtube\.com/(?!playlist\?list=)watch\?v=[\w-]+
\* matched at position i: the position after the match, 0 when there is none.
MatchWatch(text, i) ==
    LET h == IF At(text, i + 1) \in Hosts THEN i + 2 ELSE i + 1
    IN  IF /\ At(text, i) \in Schemes
           /\ At(text, h) = "youtube.com/"
           /\ At(text, h + 1) # "playlist?list="
           /\ At(text, h + 1) = "watch?v="
           /\ WordRun(text, h + 2) > h + 2
        THEN WordRun(text, h + 2)
        ELSE 0

\* https?://youtu\.be/[\w-]+
MatchShort(text, i) ==
    IF /\ At(text, i) \in Schemes
       /\ At(text, i + 1) = "youtu.be/"
       /\ WordRun(text, i + 2) > i + 2
    THEN WordRun(text, i + 2)
    ELSE 0

\* youtube_link_pattern: the first alternative that matches.
Match(text, i) ==
    IF MatchWatch(text, i) # 0 THEN MatchWatch(text, i) ELSE MatchShort(text, i)

\* re.findall(youtube_link_pattern, body): the matches from left to right,
\* each search starting where the last match ended.
RECURSIVE Scan(_, _)
Scan(text, i) ==
    IF i > Len(text) THEN <<>>
    ELSE IF Match(text, i) # 0
         THEN <<SubSeq(text, i, Match(text, i) - 1)>> \o Scan(text, Match(text, i))
         ELSE Scan(text, i + 1)

findall(body) == Scan(body, 1)

\* The lexemes that end with "v=", that start with "&", that end with "/".
EndsWithVEq == {"watch?v="}
StartsWithAmp == {"&list="}
EndsWithSlash == {"http://", "https://", "youtube.com/", "youtu.be/"}

\* text.split(sep)[-1]: what follows the last lexeme of seps.
SplitLast(text, seps) ==
    LET I == { i \in 1..Len(text) : text[i] \in seps }
    IN  IF I = {} THEN text
        ELSE SubSeq(text, (CHOOSE i \in I : \A j \in I : j <= i) + 1, Len(text))

\* text.split(sep)[0]: what precedes the first lexeme of seps.
SplitFirst(text, seps) ==
    LET I == { i \in 1..Len(text) : text[i] \in seps }
    IN  IF I = {} THEN text
        ELSE SubSeq(text, 1, (CHOOSE i \in I : \A j \in I : i <= j) - 1)

\* link.split("v=")[-1].split("&")[0].split("/")[-1]
video_id_of(link) ==
    SplitLast(SplitFirst(SplitLast(link, EndsWithVEq), StartsWithAmp), EndsWithSlash)

\* body.strip(): leading and trailing blanks removed.
RECURSIVE lstrip(_)
lstrip(body) == IF body # <<>> /\ Head(body) = " " THEN lstrip(Tail(body)) ELSE body
RECURSIVE rstrip(_)
rstrip(body) == IF body # <<>> /\ body[Len(body)] = " "
                THEN rstrip(SubSeq(body, 1, Len(body) - 1)) ELSE body
strip(body) == rstrip(lstrip(body))

\* Mutant of is_music: every video passes.
is_music_Any(video_id) == TRUE

\* is_music: categoryId == "10"
is_music(video_id) == video_id \in MusicVideos

\* The remote id the service gives the n-th playlist it creates: a TEXT value.
Handle(n) == <<"PL", n>>

\* playlists.id of row i, INTEGER PRIMARY KEY AUTOINCREMENT: an INTEGER value,
\* which sqlite holds equal to no TEXT value.
playlists_id(i) == <<"INTEGER", i>>

-----------------------------------------------------------------------------
(* Queries *)

\* Mutant of PlaylistRows: the lookup uses a key that is never stored.
PlaylistRows_WrongKey(title) == {}

\* SELECT playlist_id FROM playlists WHERE title = ?  (fetchone)
PlaylistRows(title) == { i \in 1..Len(playlists) : playlists[i].title = title }

\* Mutant of MessageIds: the lookup is by sender and link.
MessageIds_OwnRows(link) ==
    { i \in 1..Len(messages) :
        messages[i].message = link /\ messages[i].sender = event.sender }

\* SELECT id FROM messages WHERE message = ?  (fetchone): sqlite scans the table
\* in rowid order, so the row fetched is the one with the least id.
MessageIds(link) == { i \in 1..Len(messages) : messages[i].message = link }
Least(S) == CHOOSE i \in S : \A j \in S : i <= j
\* Mutant of find_message: the row fetched is the newest one.
find_message_Latest(link) ==
    IF MessageIds(link) = {} THEN 0
    ELSE CHOOSE i \in MessageIds(link) : \A j \in MessageIds(link) : j <= i

find_message(link) == IF MessageIds(link) = {} THEN 0 ELSE Least(MessageIds(link))

\* Mutant of track_row: the membership check never finds a row.
track_row_Never(mid, pid) == FALSE

\* SELECT id FROM playlist_tracks WHERE message_id = ? AND playlist_id = ?
track_row(mid, pid) == [playlist_id |-> pid, message_id |-> mid] \in playlist_tracks

\* Mutant of MessageExists: no UNIQUE constraint on messages.
MessageExists_Unconstrained(row) == FALSE

\* UNIQUE (sender, message, timestamp)
MessageExists(row) == \E i \in 1..Len(messages) : messages[i] = row

-----------------------------------------------------------------------------
(* Initial state: define_tables has run on an empty store and main is about to
   call sync_forever (Init, a run without --backwards-sync) or backwards_sync
   (InitBackfill, a run with it). *)

Empty ==
    /\ messages = <<>>
    /\ playlists = <<>>
    /\ playlist_tracks = {}
    /\ createCalls = <<>>
    /\ appendCalls = <<>>
    /\ from_token = StartToken
    /\ response_end = NoEnd
    /\ fetchLog = <<>>
    /\ pc = "idle"
    /\ event = NoEvent
    /\ playlist_id = NoPlaylist
    /\ current_time = NoTime
    /\ youtube_links = <<>>
    /\ li = 0
    /\ message_row = 0
    /\ attempt = 0
    /\ sent = <<>>
    /\ printed = <<>>
    /\ nEvents = 0
    /\ waiting = <<>>

Init == Empty /\ phase = "live"

InitBackfill == Empty /\ phase = "backfill"

-----------------------------------------------------------------------------
(* main and backwards_sync *)

\* response = await client.room_messages(room_id, from_token, direction="b")
Fetch ==
    /\ phase = "backfill" /\ pc = "idle"
    /\ Len(fetchLog) < MaxFetch
    /\ \E end \in Cursors \cup {StartToken, NoEnd} :
         /\ fetchLog' = Append(fetchLog, [from |-> from_token, end |-> end])
         /\ response_end' = end
    /\ phase' = "chunk"
    /\ UNCHANGED <<db, remote, from_token, pc, event, locals, output, nEvents, waiting>>

\* Mutant of StopsHere: only an empty cursor ends the loop.
StopsHere_EmptyOnly == response_end = NoEnd

\* line 302: not response.end or response.end == from_token
StopsHere == response_end = NoEnd \/ response_end = from_token

\* if not response.end or response.end == from_token: break
EndOfPageBreak ==
    /\ phase = "chunk" /\ pc = "idle"
    /\ StopsHere
    /\ phase' = "returned"
    /\ UNCHANGED <<db, remote, backfill, pc, event, locals, output, nEvents, waiting>>

\* from_token = response.end
EndOfPageContinue ==
    /\ phase = "chunk" /\ pc = "idle"
    /\ ~StopsHere
    /\ from_token' = response_end
    /\ phase' = "backfill"
    /\ UNCHANGED <<db, remote, response_end, fetchLog, pc, event, locals, output,
                   nEvents, waiting>>

\* await client.sync_forever(...), after backwards_sync has returned
SyncForever ==
    /\ phase = "returned"
    /\ phase' = "live"
    /\ from_token' = StartToken
    /\ response_end' = NoEnd
    /\ fetchLog' = <<>>
    /\ UNCHANGED <<db, remote, pc, event, locals, output, nEvents, waiting>>

\* The handler's frame is gone: after its return, or in a new process.
NoFrame ==
    /\ event' = NoEvent
    /\ playlist_id' = NoPlaylist
    /\ current_time' = NoTime
    /\ youtube_links' = <<>>
    /\ li' = 0
    /\ message_row' = 0
    /\ attempt' = 0
    /\ sent' = <<>>
    /\ printed' = <<>>

\* An exception is leaving message_callback.
Raised == pc \in {"raise_make_playlist", "raise_is_music", "raise_add_video"}

\* An exception left message_callback and, through the sync loop, main: the
\* process has ended.  It is started again on the same store.
StartAgain(first) ==
    /\ Raised
    /\ pc' = "idle"
    /\ phase' = first
    /\ from_token' = StartToken
    /\ response_end' = NoEnd
    /\ fetchLog' = <<>>
    /\ NoFrame
    /\ waiting' = <<>>
    /\ UNCHANGED <<db, remote, nEvents>>

\* ... without --backwards-sync
Restart == StartAgain("live")

\* ... with --backwards-sync
RestartBackfill == StartAgain("backfill")

-----------------------------------------------------------------------------
(* message_callback *)

\* Lines 186-187: nothing is done for the bot's own messages.
message_callback(s, b, t) ==
    /\ pc = "idle"
    /\ nEvents < MaxEvents
    /\ nEvents' = nEvents + 1
    /\ IF s # MATRIX_USER
       THEN /\ \E a \in (IF findall(b) = <<>> THEN Ages ELSE LinkAges) :
                 event' = [sender |-> s, body |-> b, timestamp |-> t, age |-> a]
            /\ pc' = "resolve"
       ELSE UNCHANGED <<event, pc>>
    /\ UNCHANGED <<db, remote, phase, backfill, locals, output, waiting>>

\* The live sync calls the callback registered in get_client.
Deliver ==
    /\ phase = "live"
    /\ \E s \in Senders, b \in Bodies, t \in Timestamps : message_callback(s, b, t)

\* backwards_sync calls it for an event of response.chunk.
DeliverChunk ==
    /\ phase = "chunk"
    /\ \E s \in HistorySenders, b \in HistoryBodies, t \in HistoryTimestamps :
         message_callback(s, b, t)

\* The live sync, in a room where video a is shared in several link forms.
DeliverForms ==
    /\ phase = "live"
    /\ \E s \in FormSenders, b \in FormBodies, t \in FormTimestamps :
         message_callback(s, b, t)

title_of_event == playlist_title(get_monday_date(event.timestamp))

\* get_or_make_playlist: the title is in the table.
ResolveHit ==
    /\ pc = "resolve"
    /\ PlaylistRows(title_of_event) # {}
    /\ playlist_id' = playlists[Least(PlaylistRows(title_of_event))].playlist_id
    /\ pc' = "cmd"
    /\ UNCHANGED <<db, remote, phase, backfill, event, current_time,
                   youtube_links, li, message_row, attempt, output, nEvents, waiting>>

\* The id the service gives the next playlist it creates.
NextHandle == Handle(1 + Cardinality({i \in 1..Len(createCalls) : createCalls[i].ok}))

\* Mutant of ResolveCreate: the row is not written.
ResolveCreate_NoInsert ==
    /\ pc = "resolve"
    /\ PlaylistRows(title_of_event) = {}
    /\ createCalls' = Append(createCalls, [title |-> title_of_event, ok |-> TRUE])
    /\ playlist_id' = NextHandle
    /\ pc' = "cmd"
    /\ UNCHANGED <<db, appendCalls, phase, backfill, event, current_time,
                   youtube_links, li, message_row, attempt, output, nEvents, waiting>>

\* get_or_make_playlist: make_playlist succeeds, the row is inserted and committed.
ResolveCreate ==
    /\ pc = "resolve"
    /\ PlaylistRows(title_of_event) = {}
    /\ createCalls' = Append(createCalls, [title |-> title_of_event, ok |-> TRUE])
    /\ playlists' = Append(playlists,
                           [title |-> title_of_event, playlist_id |-> NextHandle,
                            creation_date |-> get_monday_date(event.timestamp)])
    /\ playlist_id' = NextHandle
    /\ pc' = "cmd"
    /\ UNCHANGED <<messages, playlist_tracks, appendCalls, phase, backfill, event,
                   current_time, youtube_links, li, message_row, attempt, output,
                   nEvents, waiting>>

\* Mutant of ResolveCreateFails: the row is written before the remote call.
ResolveCreateFails_RowFirst ==
    /\ pc = "resolve"
    /\ PlaylistRows(title_of_event) = {}
    /\ createCalls' = Append(createCalls, [title |-> title_of_event, ok |-> FALSE])
    /\ playlists' = Append(playlists,
                           [title |-> title_of_event, playlist_id |-> NoPlaylist,
                            creation_date |-> get_monday_date(event.timestamp)])
    /\ pc' = "raise_make_playlist"
    /\ UNCHANGED <<messages, playlist_tracks, appendCalls, phase, backfill, event,
                   locals, output, nEvents, waiting>>

\* get_or_make_playlist: make_playlist raises; nothing catches it.
ResolveCreateFails ==
    /\ pc = "resolve"
    /\ PlaylistRows(title_of_event) = {}
    /\ createCalls' = Append(createCalls, [title |-> title_of_event, ok |-> FALSE])
    /\ pc' = "raise_make_playlist"
    /\ UNCHANGED <<db, appendCalls, phase, backfill, event, locals, output, nEvents, waiting>>

Intro == <<"Hi, I'm ParkerBot!">>
PlaylistLink(pid) == <<"https://www.youtube.com/playlist?list=">> \o pid

\* Mutant of Fresh: the window includes its end.
Fresh_Inclusive(now, timestamp) == now - timestamp <= FreshnessMs

\* current_time - timestamp_sec < timedelta(seconds=30)
Fresh(now, timestamp) == now - timestamp < FreshnessMs

\* Lines 194-218: findall, the two clock readings and the two commands.
Commands ==
    /\ pc = "cmd"
    /\ youtube_links' = findall(strip(event.body))
    /\ LET now == event.timestamp + event.age
             body == strip(event.body)
           intro == IF body = <<"!parkerbot">> /\ Fresh(now, event.timestamp)
                    THEN << Intro >> ELSE <<>>
           pow == IF body = <<"!pow">> /\ Fresh(now, event.timestamp)
                  THEN << <<event.sender>> \o PlaylistLink(playlist_id) >>
                  ELSE <<>>
       IN  /\ current_time' = now
           /\ sent' = sent \o intro \o pow
    /\ li' = 1
    /\ pc' = "loop"
    /\ UNCHANGED <<db, remote, phase, backfill, event, playlist_id, message_row,
                   attempt, printed, nEvents, waiting>>

link == youtube_links[li]
video_id == video_id_of(link)

\* for link in youtube_links: exhausted, message_callback returns.
LoopEnd ==
    /\ pc = "loop" /\ li > Len(youtube_links)
    /\ pc' = "idle"
    /\ NoFrame
    /\ UNCHANGED <<db, remote, phase, backfill, nEvents, waiting>>

\* if is_music(youtube, video_id): true
ClassifyMusic ==
    /\ pc = "loop" /\ li <= Len(youtube_links)
    /\ is_music(video_id)
    /\ pc' = "record"
    /\ current_time' = NoTime
    /\ UNCHANGED <<db, remote, phase, backfill, event, playlist_id, youtube_links,
                   li, message_row, attempt, output, nEvents, waiting>>

\* if is_music(youtube, video_id): false, on to the next link
ClassifySkip ==
    /\ pc = "loop" /\ li <= Len(youtube_links)
    /\ ~is_music(video_id)
    /\ li' = li + 1
    /\ current_time' = NoTime
    /\ UNCHANGED <<db, remote, phase, backfill, pc, event, playlist_id,
                   youtube_links, message_row, attempt, output, nEvents, waiting>>

\* is_music raises (videos().list fails, or returns no item)
ClassifyFails ==
    /\ pc = "loop" /\ li <= Len(youtube_links)
    /\ pc' = "raise_is_music"
    /\ current_time' = NoTime
    /\ UNCHANGED <<db, remote, phase, backfill, event, playlist_id, youtube_links,
                   li, message_row, attempt, output, nEvents, waiting>>

NewMessage == [sender |-> event.sender, message |-> link, timestamp |-> event.timestamp]

\* INSERT INTO messages ...; conn.commit()  --  or the UNIQUE constraint fails
\* and the IntegrityError is swallowed.
Record ==
    /\ pc = "record"
    /\ IF MessageExists(NewMessage)
       THEN /\ UNCHANGED messages
            /\ printed' = Append(printed, [line |-> "Entry already exists", link |-> link])
       ELSE /\ messages' = Append(messages, NewMessage)
            /\ printed' = Append(printed, [line |-> "Saved YouTube link", link |-> link])
    /\ pc' = "lookup"
    /\ UNCHANGED <<playlists, playlist_tracks, remote, phase, backfill, event,
                   locals, sent, nEvents, waiting>>

\* Lines 237-248: the two SELECTs; the track is already in the playlist (or the
\* link has no row at all).
LookupSkip ==
    /\ pc = "lookup"
    /\ find_message(link) = 0 \/ track_row(find_message(link), playlist_id)
    /\ message_row' = find_message(link)
    /\ printed' = IF find_message(link) = 0 THEN printed
                  ELSE Append(printed, [line |-> "Track already in playlist", link |-> link])
    /\ li' = li + 1
    /\ pc' = "loop"
    /\ UNCHANGED <<db, remote, phase, backfill, event, playlist_id, current_time,
                   youtube_links, attempt, sent, nEvents, waiting>>

\* Lines 237-251: the two SELECTs; no track row, add_video_to_playlist is called.
LookupAdd ==
    /\ pc = "lookup"
    /\ find_message(link) # 0 /\ ~track_row(find_message(link), playlist_id)
    /\ message_row' = find_message(link)
    /\ attempt' = 0
    /\ pc' = "append"
    /\ UNCHANGED <<db, remote, phase, backfill, event, playlist_id, current_time,
                   youtube_links, li, output, nEvents, waiting>>

\* One playlistItems().insert(...).execute() of add_video_to_playlist.
AppendCall(ok) ==
    [playlist_id |-> playlist_id, video_id |-> video_id, link |-> link,
     sender |-> event.sender, timestamp |-> event.timestamp,
     attempt |-> attempt, ok |-> ok]

\* for attempt in range(retry_count)
InRange == attempt < retry_count

\* Mutant of AppendOk: no break after a success, the loop goes on.
AppendOk_NoBreak ==
    /\ pc = "append" /\ InRange
    /\ appendCalls' = Append(appendCalls, AppendCall(TRUE))
    /\ attempt' = attempt + 1
    /\ pc' = IF attempt + 1 < retry_count THEN "append" ELSE "mark"
    /\ UNCHANGED <<db, createCalls, phase, backfill, event, playlist_id,
                   current_time, youtube_links, li, message_row, output, nEvents, waiting>>

\* execute() returns: break
AppendOk ==
    /\ pc = "append" /\ InRange
    /\ appendCalls' = Append(appendCalls, AppendCall(TRUE))
    /\ pc' = "mark"
    /\ UNCHANGED <<db, createCalls, phase, backfill, event, locals, output, nEvents, waiting>>

\* Mutant of AppendRetry: the error is swallowed and the call counts as done.
AppendRetry_Swallow ==
    /\ pc = "append" /\ InRange
    /\ attempt < retry_count - 1
    /\ appendCalls' = Append(appendCalls, AppendCall(FALSE))
    /\ pc' = "mark"
    /\ UNCHANGED <<db, createCalls, phase, backfill, event, locals, output, nEvents, waiting>>

\* HttpError with attempts left: sleep, continue
AppendRetry ==
    /\ pc = "append" /\ InRange
    /\ attempt < retry_count - 1
    /\ appendCalls' = Append(appendCalls, AppendCall(FALSE))
    /\ attempt' = attempt + 1
    /\ UNCHANGED <<db, createCalls, phase, backfill, pc, event, playlist_id,
                   current_time, youtube_links, li, message_row, output, nEvents, waiting>>

\* HttpError on the last attempt: raise error
AppendRaise ==
    /\ pc = "append" /\ InRange
    /\ ~(attempt < retry_count - 1)
    /\ appendCalls' = Append(appendCalls, AppendCall(FALSE))
    /\ pc' = "raise_add_video"
    /\ UNCHANGED <<db, createCalls, phase, backfill, event, locals, output, nEvents, waiting>>

\* with conn: INSERT INTO playlist_tracks (playlist_id, message_id) VALUES (?, ?)
Mark ==
    /\ pc = "mark"
    /\ playlist_tracks' = playlist_tracks \cup
          {[playlist_id |-> playlist_id, message_id |-> message_row]}
    /\ printed' = Append(printed, [line |-> "Added track to playlist", link |-> link])
    /\ li' = li + 1
    /\ pc' = "loop"
    /\ UNCHANGED <<messages, playlists, remote, phase, backfill, event,
                   playlist_id, current_time, youtube_links, message_row, attempt,
                   sent, nEvents, waiting>>

-----------------------------------------------------------------------------

(* message_callback as a coroutine.  Its awaits are the two room_send calls
   (lines 205 and 214); nothing else in it, get_or_make_playlist, or
   add_video_to_playlist yields to the event loop.  nio awaits each callback
   before it calls the next, which is what Deliver and Commands model; here
   an invocation suspended at an await may be overtaken by the invocations for
   later events. *)

ConcurrentSenders == {"u1", "u2"}
ConcurrentBodies == { <<"!pow">>, <<" ", "!parkerbot">>, LinkN \o <<" ">> \o LinkA }
\* Mon 1970-01-05 00:00:00.000 and Sun 1970-01-11 23:59:59.999: one week
ConcurrentTimestamps == { 345600000, 950399999 }

\* The callback is started for an event while no invocation is running.
DeliverConcurrent ==
    /\ phase = "live"
    /\ \E s \in ConcurrentSenders, b \in ConcurrentBodies, t \in ConcurrentTimestamps :
         message_callback(s, b, t)

\* Lines 194-209, up to the await of line 205.
CheckParkerbot ==
    /\ pc = "cmd"
    /\ youtube_links' = findall(strip(event.body))
    /\ current_time' = event.timestamp + event.age
    /\ IF /\ strip(event.body) = <<"!parkerbot">>
          /\ Fresh(event.timestamp + event.age, event.timestamp)
       THEN sent' = Append(sent, Intro) /\ pc' = "await_intro"
       ELSE UNCHANGED sent /\ pc' = "pow"
    /\ UNCHANGED <<db, remote, phase, backfill, event, playlist_id, li, message_row,
                   attempt, printed, nEvents, waiting>>

\* Lines 211-218, up to the await of line 214; then the for loop starts.
CheckPow ==
    /\ pc = "pow"
    /\ IF strip(event.body) = <<"!pow">> /\ Fresh(current_time, event.timestamp)
       THEN /\ sent' = Append(sent, <<event.sender>> \o PlaylistLink(playlist_id))
            /\ pc' = "await_pow"
       ELSE UNCHANGED sent /\ pc' = "loop"
    /\ li' = 1
    /\ UNCHANGED <<db, remote, phase, backfill, event, playlist_id, current_time,
                   youtube_links, message_row, attempt, printed, nEvents, waiting>>

\* Mutant of SuspensionPoints: an await between the append and the membership INSERT.
SuspensionPoints_BeforeMark == {"await_intro", "await_pow", "mark"}

\* The statements at which message_callback yields: await client.room_send(...)
SuspensionPoints == {"await_intro", "await_pow"}

\* Where a suspended invocation goes on.
AfterAwait(p) == IF p = "await_intro" THEN "pow" ELSE IF p = "await_pow" THEN "loop" ELSE p

\* The invocation yields; its frame is kept by the event loop.
Suspend ==
    /\ pc \in SuspensionPoints
    /\ waiting' = Append(waiting,
                         [pc |-> AfterAwait(pc), event |-> event,
                          playlist_id |-> playlist_id, current_time |-> current_time,
                          youtube_links |-> youtube_links, li |-> li,
                          message_row |-> message_row, attempt |-> attempt,
                          sent |-> sent, printed |-> printed])
    /\ pc' = "idle"
    /\ NoFrame
    /\ UNCHANGED <<db, remote, phase, backfill, nEvents>>

\* The event loop resumes one of the suspended invocations.
Resume ==
    /\ pc = "idle"
    /\ \E k \in 1..Len(waiting) :
         /\ pc' = waiting[k].pc
         /\ event' = waiting[k].event
         /\ playlist_id' = waiting[k].playlist_id
         /\ current_time' = waiting[k].current_time
         /\ youtube_links' = waiting[k].youtube_links
         /\ li' = waiting[k].li
         /\ message_row' = waiting[k].message_row
         /\ attempt' = waiting[k].attempt
         /\ sent' = waiting[k].sent
         /\ printed' = waiting[k].printed
         /\ waiting' = SubSeq(waiting, 1, k - 1) \o SubSeq(waiting, k + 1, Len(waiting))
    /\ UNCHANGED <<db, remote, phase, backfill, nEvents>>

-----------------------------------------------------------------------------

\* message_callback outside lines 194-218
Steps ==
    \/ ResolveHit
    \/ ResolveCreate
    \/ ResolveCreateFails
    \/ LoopEnd
    \/ ClassifyMusic
    \/ ClassifySkip
    \/ ClassifyFails
    \/ Record
    \/ LookupSkip
    \/ LookupAdd
    \/ AppendOk
    \/ AppendRetry
    \/ AppendRaise
    \/ Mark

\* message_callback, from its second statement on
Handler ==
    \/ Commands
    \/ Steps

\* The bot run, and run again, without --backwards-sync.
Next ==
    \/ Deliver
    \/ Handler
    \/ Restart

Spec == Init /\ [][Next]_vars

\* The same, in the room of DeliverForms.
NextForms ==
    \/ DeliverForms
    \/ Handler
    \/ Restart

SpecForms == Init /\ [][NextForms]_vars

\* The bot with callbacks that overtake each other at their awaits.
NextInterleave ==
    \/ DeliverConcurrent
    \/ Steps
    \/ CheckParkerbot
    \/ CheckPow
    \/ Suspend
    \/ Resume
    \/ Restart

SpecInterleave == Init /\ [][NextInterleave]_vars

\* The process is terminated from outside while message_callback is at one of
\* its statements, and is started again on the same store, without
\* --backwards-sync; the sync then delivers events again.
Kill ==
    /\ pc # "idle" /\ ~Raised
    /\ pc' = "idle"
    /\ phase' = "live"
    /\ from_token' = StartToken
    /\ response_end' = NoEnd
    /\ fetchLog' = <<>>
    /\ NoFrame
    /\ waiting' = <<>>
    /\ UNCHANGED <<db, remote, nEvents>>

\* The same, inside get_or_make_playlist: make_playlist has returned (line 144)
\* and the INSERT of lines 145-149 has not been executed.
KillInCreate ==
    /\ pc = "resolve"
    /\ PlaylistRows(title_of_event) = {}
    /\ createCalls' = Append(createCalls, [title |-> title_of_event, ok |-> TRUE])
    /\ pc' = "idle"
    /\ phase' = "live"
    /\ from_token' = StartToken
    /\ response_end' = NoEnd
    /\ fetchLog' = <<>>
    /\ NoFrame
    /\ waiting' = <<>>
    /\ UNCHANGED <<db, appendCalls, nEvents>>

\* The bot, terminated and started again at any point.
NextKill ==
    \/ Deliver
    \/ Handler
    \/ Restart
    \/ Kill
    \/ KillInCreate

SpecKill == Init /\ [][NextKill]_vars

\* The bot run, and run again, with --backwards-sync, up to sync_forever.
NextBackfill ==
    \/ Fetch
    \/ DeliverChunk
    \/ EndOfPageBreak
    \/ EndOfPageContinue
    \/ SyncForever
    \/ Handler
    \/ RestartBackfill

SpecBackfill == InitBackfill /\ [][NextBackfill]_vars

-----------------------------------------------------------------------------
(* Vocabulary of the properties *)

\* The handler has gone through its last statement and is about to return.
Returning == pc = "loop" /\ li > Len(youtube_links)

\* The Monday-to-Sunday (UTC) week a timestamp lies in, counted from the week
\* of Monday 1969-12-29.
WeekIndex(timestamp) == ((timestamp \div MsPerDay) + EpochWeekday) \div 7

\* The rows of messages holding the triple (s, l, t).
RowsOf(s, l, t) ==
    { i \in 1..Len(messages) :
        messages[i] = [sender |-> s, message |-> l, timestamp |-> t] }

\* The remote append calls made while processing the event (s, l, t).
CallsOf(s, l, t) ==
    { i \in 1..Len(appendCalls) :
        /\ appendCalls[i].sender = s
        /\ appendCalls[i].link = l
        /\ appendCalls[i].timestamp = t }

OkCalls(S) == { i \in S : appendCalls[i].ok }

\* The remote append calls for link l on playlist pid.
CallsOn(pid, l) ==
    { i \in 1..Len(appendCalls) :
        appendCalls[i].playlist_id = pid /\ appendCalls[i].link = l }

\* The current processing has printed this line about link l.
Printed(line, l) ==
    \E k \in 1..Len(printed) : printed[k] = [line |-> line, link |-> l]

\* The links of the current event that the loop has gone past.
DoneLinks == { youtube_links[k] : k \in 1..(IF li > Len(youtube_links)
                                             THEN Len(youtube_links) ELSE li - 1) }

\* The current event (sender, l, timestamp) had been recorded before this
\* processing, and this processing has gone past l: the event was processed twice.
Replayed(l) == l \in DoneLinks /\ Printed("Entry already exists", l)

\* Playlist pid has a membership row for link l.
Member(pid, l) ==
    \E tr \in playlist_tracks :
        /\ tr.playlist_id = pid
        /\ tr.message_id \in 1..Len(messages)
        /\ messages[tr.message_id].message = l

-----------------------------------------------------------------------------
(* C1 *)

\* C1, as stated: when the same event (sender, link, timestamp) has been
\* processed twice, messages holds exactly one row for it and at most one
\* remote append call was made for it over both processings.
C1_OneCallOverBothProcessings ==
    \A l \in DoneLinks :
        Replayed(l) =>
            /\ Cardinality(RowsOf(event.sender, l, event.timestamp)) = 1
            /\ Cardinality(CallsOf(event.sender, l, event.timestamp)) <= 1

\* C1, amended: when the same event (sender, link, timestamp) has been processed
\* twice, messages holds exactly one row for it and at most one remote append
\* call made for it has succeeded, over both processings; no triple ever has
\* two rows or two successful calls.
C1_Idempotent ==
    /\ \A l \in DoneLinks :
          Replayed(l) =>
              /\ Cardinality(RowsOf(event.sender, l, event.timestamp)) = 1
              /\ Cardinality(OkCalls(CallsOf(event.sender, l, event.timestamp))) <= 1
    /\ \A i \in 1..Len(messages) :
          \A j \in (i + 1)..Len(messages) : messages[i] # messages[j]
    /\ \A i \in 1..Len(appendCalls) :
          appendCalls[i].ok =>
             \A j \in (i + 1)..Len(appendCalls) :
                ~ /\ appendCalls[j].ok
                  /\ appendCalls[i].sender = appendCalls[j].sender
                  /\ appendCalls[i].link = appendCalls[j].link
                  /\ appendCalls[i].timestamp = appendCalls[j].timestamp

\* An event is processed a second time after its first processing appended its
\* link: the row is found, the track is found, nothing is appended.
C1_Witness ==
    /\ Returning
    /\ Replayed(LinkA)
    /\ Printed("Track already in playlist", LinkA)
    /\ Cardinality(RowsOf(event.sender, LinkA, event.timestamp)) = 1
    /\ Cardinality(OkCalls(CallsOf(event.sender, LinkA, event.timestamp))) = 1

-----------------------------------------------------------------------------
(* C2 *)

\* C2: once a membership row exists for a link in a week's playlist, no
\* processing of an event carrying that link in that week issues a remote
\* append call for the link on that playlist: every call that is made is for a
\* (playlist, link) pair that has no membership row.
C2_NoAppendForMember ==
    [][ Len(appendCalls') > Len(appendCalls) =>
          LET c == appendCalls'[Len(appendCalls')]
          IN  /\ ~Member(c.playlist_id, c.link)
              /\ \A i \in 1..Len(playlists) :
                    WeekIndex(playlists[i].creation_date) = WeekIndex(c.timestamp)
                       => ~Member(playlists[i].playlist_id, c.link) ]_vars

\* A second sender shares, in the same week, a link that is already a member of
\* the week's playlist: a new messages row, and no append.
C2_Witness ==
    /\ Returning
    /\ Printed("Saved YouTube link", LinkA)
    /\ Printed("Track already in playlist", LinkA)
    /\ Member(playlist_id, LinkA)
    /\ \E i \in CallsOn(playlist_id, LinkA) :
          appendCalls[i].ok /\ appendCalls[i].sender # event.sender

-----------------------------------------------------------------------------
(* C3 *)

\* C3, as stated: at most one remote append call, counting every attempt, is
\* issued per (week bucket, link) pair.
C3_OneCallPerBucketAndLink ==
    \A i, j \in 1..Len(appendCalls) :
        /\ WeekIndex(appendCalls[i].timestamp) = WeekIndex(appendCalls[j].timestamp)
        /\ appendCalls[i].link = appendCalls[j].link
        => i = j

\* C3, amended: at most one remote append call per (week bucket, link) pair
\* succeeds, whatever the events and whatever attempts fail.
C3_OneSuccessPerBucketAndLink ==
    \A i \in 1..Len(appendCalls) :
        appendCalls[i].ok =>
           \A j \in (i + 1)..Len(appendCalls) :
              ~ /\ appendCalls[j].ok
                /\ appendCalls[i].link = appendCalls[j].link
                /\ \/ WeekIndex(appendCalls[i].timestamp)
                         = WeekIndex(appendCalls[j].timestamp)
                   \/ appendCalls[i].playlist_id = appendCalls[j].playlist_id

\* A link whose three attempts all failed in one processing is appended by a
\* later one, in the same week: four calls for the pair, one success.
C3_Witness ==
    /\ pc = "mark"
    /\ Cardinality(CallsOn(playlist_id, link)) > retry_count
    /\ Cardinality(OkCalls(CallsOn(playlist_id, link))) = 1

-----------------------------------------------------------------------------
(* C4 *)

\* C4: a membership row is written only after add_video_to_playlist returned
\* without error for that playlist and link: every membership row has a remote
\* append that succeeded, and a processing whose attempts all failed has
\* written no row for its pair.
C4_MemberOnlyAfterSuccess ==
    /\ \A tr \in playlist_tracks :
          /\ tr.message_id \in 1..Len(messages)
          /\ \E i \in 1..Len(appendCalls) :
                /\ appendCalls[i].ok
                /\ appendCalls[i].playlist_id = tr.playlist_id
                /\ appendCalls[i].link = messages[tr.message_id].message
    /\ pc = "raise_add_video" =>
          /\ ~track_row(message_row, playlist_id)
          /\ ~Member(playlist_id, link)

\* The row is being written right after the third attempt succeeded.
C4_Witness ==
    /\ pc = "loop"
    /\ Printed("Added track to playlist", LinkA)
    /\ Member(playlist_id, LinkA)
    /\ \E i \in CallsOn(playlist_id, LinkA) :
          appendCalls[i].ok /\ appendCalls[i].attempt = retry_count - 1

-----------------------------------------------------------------------------
(* C5 *)

\* C5: playlists holds at most one row per week bucket (derived title) and at
\* most one row per remote playlist handle.
C5_OnePlaylistPerBucket ==
    \A i, j \in 1..Len(playlists) :
        \/ i = j
        \/ /\ playlists[i].title # playlists[j].title
           /\ playlists[i].playlist_id # playlists[j].playlist_id
           /\ WeekIndex(playlists[i].creation_date) # WeekIndex(playlists[j].creation_date)

\* An event of a week whose playlist exists, made for another timestamp of the
\* week, is being processed: the row is found and no second one is made.
C5_Witness ==
    /\ pc = "cmd"
    /\ Len(playlists) = 1
    /\ Len(createCalls) = 1
    /\ playlists[1].creation_date # get_monday_date(event.timestamp)
    /\ WeekIndex(playlists[1].creation_date) = WeekIndex(event.timestamp)
    /\ playlist_id = playlists[1].playlist_id

-----------------------------------------------------------------------------
(* C6 *)

\* Two timestamps have the same derived title exactly when they lie in the same
\* Monday-to-Sunday (UTC) week.
TitleIsTheWeek ==
    \A t, u \in Timestamps :
        (WeekIndex(t) = WeekIndex(u))
           <=> (playlist_title(get_monday_date(t)) = playlist_title(get_monday_date(u)))

\* The derived title of each timestamp delivered; TitleAt looks a timestamp up
\* there and derives its title otherwise.
TitleOf == [t \in Timestamps |-> playlist_title(get_monday_date(t))]

TitleAt(t) ==
    IF t \in Timestamps THEN TitleOf[t] ELSE playlist_title(get_monday_date(t))

\* get_or_make_playlist has returned for the current event.
Resolved == pc \in {"cmd", "loop", "record", "lookup", "append", "mark",
                    "raise_is_music", "raise_add_video"}

-----------------------------------------------------------------------------
(* C7 *)

IsCommand == strip(event.body) \in { <<"!pow">>, <<"!parkerbot">> }

\* What C7 asks of the messages sent for the current event.
RepliedAsClaimed ==
    IF event.age >= FreshnessMs
    THEN sent = <<>>
    ELSE /\ Len(sent) = 1
         /\ strip(event.body) = <<"!pow">> =>
               \E i \in 1..Len(playlists) :
                  /\ WeekIndex(playlists[i].creation_date) = WeekIndex(event.timestamp)
                  /\ sent[1] = <<event.sender, "https://www.youtube.com/playlist?list=">>
                                  \o playlists[i].playlist_id

\* C7, as stated: every processing of a "!pow" or "!parkerbot" event of a
\* non-bot sender sends no message when the event is 30 s old or older, and
\* exactly one when it is younger, for "!pow" with the link of the week's playlist.
C7_EveryProcessingReplies ==
    (IsCommand /\ (Returning \/ Raised)) => RepliedAsClaimed

\* C7, amended: the same, for every processing in which get_or_make_playlist
\* returns a playlist; when the remote create fails the processing ends with no
\* message sent, however young the command.
C7_CommandFreshness ==
    /\ (IsCommand /\ Returning) => RepliedAsClaimed
    /\ (IsCommand /\ Raised) => (pc = "raise_make_playlist" /\ sent = <<>>)

\* A 5 s old "!pow" has been answered with the link of its week's playlist.
C7_Witness ==
    /\ Returning
    /\ strip(event.body) = <<"!pow">>
    /\ event.age < FreshnessMs
    /\ Len(sent) = 1
    /\ sent[1] = <<event.sender>> \o PlaylistLink(playlist_id)

-----------------------------------------------------------------------------
(* C8 *)

\* A page whose end cursor is neither empty nor the cursor it was asked with.
Advancing(page) == page.end # NoEnd /\ page.end # page.from

\* C8: backwards_sync fetches page after page from the cursor the last page
\* ended with, as long as the cursor advances, and stops right after the first
\* page whose cursor does not advance or is empty: a history whose N-th page is
\* the first such page gets exactly N fetches.
C8_StopsAtNonAdvancingPage ==
    /\ \A n \in 1..Len(fetchLog) :
          /\ n = 1 => fetchLog[n].from = StartToken
          /\ n < Len(fetchLog) =>
                /\ Advancing(fetchLog[n])
                /\ fetchLog[n + 1].from = fetchLog[n].end
    /\ phase = "returned" =>
          /\ fetchLog # <<>>
          /\ ~Advancing(fetchLog[Len(fetchLog)])
    /\ (phase = "backfill" /\ fetchLog # <<>>) => Advancing(fetchLog[Len(fetchLog)])

\* N = 3: two advancing pages, then a page that ends with the cursor it was
\* asked with; backwards_sync has returned after the third fetch.
C8_Witness ==
    /\ phase = "returned"
    /\ Len(fetchLog) = 3
    /\ fetchLog[3].end = fetchLog[3].from

-----------------------------------------------------------------------------
(* C9 *)

IsPrefix(s, t) == Len(s) <= Len(t) /\ SubSeq(t, 1, Len(s)) = s

\* C9: an invocation of add_video_to_playlist makes at most retry_count = 3
\* attempts and none after a success; when all fail the error leaves
\* message_callback with the later links untouched, the failing link's messages
\* row and every earlier link's rows in place; and no step removes a row.
C9_BoundedRetryNoRollback ==
    /\ [](\A n \in 1..Len(appendCalls) :
            /\ appendCalls[n].attempt \in 0..2
            /\ appendCalls[n].attempt > 0 =>
                  /\ n > 1
                  /\ ~appendCalls[n - 1].ok
                  /\ appendCalls[n - 1].attempt = appendCalls[n].attempt - 1
                  /\ appendCalls[n - 1].link = appendCalls[n].link
                  /\ appendCalls[n - 1].playlist_id = appendCalls[n].playlist_id)
    /\ [](pc = "raise_add_video" =>
            /\ ~appendCalls[Len(appendCalls)].ok
            /\ appendCalls[Len(appendCalls)].attempt = 2
            /\ RowsOf(event.sender, link, event.timestamp) # {}
            /\ \A l \in DoneLinks :
                  is_music(video_id_of(l)) =>
                     /\ RowsOf(event.sender, l, event.timestamp) # {}
                     /\ Member(playlist_id, l)
            /\ \A k \in 1..Len(printed) : printed[k].link \in DoneLinks \cup {link})
    /\ [][ /\ IsPrefix(messages, messages')
           /\ IsPrefix(playlists, playlists')
           /\ playlist_tracks \subseteq playlist_tracks' ]_vars

\* The second link of an event fails three times, after an earlier event and
\* the event's first link were committed.
C9_Witness ==
    /\ pc = "raise_add_video"
    /\ li = 2
    /\ Len(messages) = 3
    /\ playlist_tracks # {}
    /\ Len(appendCalls) >= retry_count

-----------------------------------------------------------------------------
(* C10 *)

\* The links the pattern finds in the bodies delivered, and those of them whose
\* video is not music; NonMusic looks a link up there and computes it otherwise.
FoundLinks ==
    UNION { { findall(b)[k] : k \in 1..Len(findall(b)) } :
              b \in Bodies \cup FormBodies \cup HistoryBodies \cup ConcurrentBodies }

NonMusicLinks == { l \in FoundLinks : video_id_of(l) \notin MusicVideos }

NonMusic(l) ==
    IF l \in FoundLinks THEN l \in NonMusicLinks
    ELSE video_id_of(l) \notin MusicVideos

\* C10: a link whose video is not music gets no messages row, no membership row
\* and no remote append call, and the music links of the same event are
\* recorded and made members all the same.
C10_NonMusicSkipped ==
    /\ \A i \in 1..Len(messages) : ~NonMusic(messages[i].message)
    /\ \A i \in 1..Len(appendCalls) :
          ~NonMusic(appendCalls[i].link) /\ appendCalls[i].video_id \in MusicVideos
    /\ \A k \in 1..Len(printed) : ~NonMusic(printed[k].link)
    /\ Returning =>
          \A l \in DoneLinks :
             ~NonMusic(l) =>
                /\ RowsOf(event.sender, l, event.timestamp) # {}
                /\ Member(playlist_id, l)

\* An event with a non-music link followed by a music link: the first is
\* skipped, the second is recorded and appended.
C10_Witness ==
    /\ Returning
    /\ youtube_links = <<LinkN, LinkA>>
    /\ Printed("Saved YouTube link", LinkA)
    /\ Printed("Added track to playlist", LinkA)
    /\ \A i \in 1..Len(messages) : messages[i].message # LinkN

-----------------------------------------------------------------------------
(* C11 *)

\* The loop over youtube_links has been entered for the current event.
Extracted == pc \in {"loop", "record", "lookup", "append", "mark",
                     "raise_is_music", "raise_add_video"}

\* The extraction of line 194 and the derivation of line 221 on the three
\* shapes of link, alone and inside a sentence, for each scheme, host and id.
ExtractionCases ==
    \A sch \in Schemes, id \in {"a", "b", "n"} :
        /\ \A host \in {<<>>, <<"www.">>, <<"music.">>} :
              LET watch == <<sch>> \o host \o <<"youtube.com/", "watch?v=", id>>
                  list  == <<sch>> \o host \o <<"youtube.com/", "playlist?list=", "xyz">>
              IN  /\ findall(watch \o TrailingParams) = <<watch>>
                  /\ findall(<<"see", " ">> \o watch \o TrailingParams \o <<" ", "see">>)
                        = <<watch>>
                  /\ video_id_of(watch) = <<id>>
                  /\ findall(list) = <<>>
                  /\ findall(<<"see", " ">> \o list) = <<>>
        /\ LET short == <<sch, "youtu.be/", id>>
           IN  /\ findall(short) = <<short>>
               /\ findall(<<"see", " ">> \o short \o <<" ", "see">>) = <<short>>
               /\ video_id_of(short) = <<id>>

\* C11: a watch link with trailing parameters yields one reference that ends
\* with the video id, a playlist link yields none, a youtu.be link yields one,
\* and the video id derived from the reference is the link's id: for the
\* function, and for what message_callback holds and sends to the service.
C11_LinkExtraction ==
    /\ ExtractionCases
    /\ Extracted =>
          /\ strip(event.body) = LongA \o TrailingParams => youtube_links = <<LongA>>
          /\ strip(event.body) = PlaylistOnly => youtube_links = <<>>
          /\ strip(event.body) = ShortA => youtube_links = <<ShortA>>
          /\ strip(event.body) = MusicA => youtube_links = <<MusicA>>
    /\ \A i \in 1..Len(appendCalls) :
          appendCalls[i].link \in {LongA, ShortA, MusicA} => appendCalls[i].video_id = <<"a">>

\* The video of a watch link shared with a list parameter is being appended.
C11_Witness ==
    /\ pc = "mark"
    /\ event.body = LongA \o TrailingParams
    /\ youtube_links = <<LongA>>
    /\ appendCalls[Len(appendCalls)].video_id = <<"a">>
    /\ appendCalls[Len(appendCalls)].ok

-----------------------------------------------------------------------------
(* C12 *)

\* C12, as stated: the remote create-playlist operation is invoked at most once
\* per week bucket, whatever the outcomes of the remote calls.
C12_OneCreateCallPerBucket ==
    \A i \in 1..Len(createCalls) :
        \A j \in (i + 1)..Len(createCalls) : createCalls[i].title # createCalls[j].title

\* C12, amended: the create operation is invoked only for a bucket that has no
\* row in playlists, and at most one invocation per bucket succeeds; a failed
\* invocation may be followed by another for the same bucket.
C12_OneCreatedPlaylistPerBucket ==
    /\ [](\A i \in 1..Len(createCalls) :
            createCalls[i].ok =>
               \A j \in (i + 1)..Len(createCalls) :
                  ~(createCalls[j].ok /\ createCalls[i].title = createCalls[j].title))
    /\ [][ Len(createCalls') > Len(createCalls) =>
             /\ Len(createCalls') = Len(createCalls) + 1
             /\ \A i \in 1..Len(playlists) :
                   /\ playlists[i].title # createCalls'[Len(createCalls')].title
                   /\ WeekIndex(playlists[i].creation_date) # WeekIndex(event.timestamp) ]_vars

\* The create call of a week's first event failed; the call made for the next
\* event of that week has succeeded.
C12_Witness ==
    /\ pc = "cmd"
    /\ Len(createCalls) = 2
    /\ ~createCalls[1].ok /\ createCalls[2].ok
    /\ createCalls[1].title = createCalls[2].title
    /\ Len(playlists) = 1

-----------------------------------------------------------------------------
(* C13 *)

\* Row i is the first row recorded with its link.
FirstWithItsLink(i) ==
    /\ i \in 1..Len(messages)
    /\ \A j \in 1..(i - 1) : messages[j].message # messages[i].message

\* C13: the lookup by link alone returns the id of the row recorded first with
\* that link, however many rows carry it, so that every membership check and
\* every membership row of a link uses one and the same message row id.
C13_FirstRecordedRow ==
    /\ [][ (pc = "lookup" /\ pc' # "lookup") =>
             /\ FirstWithItsLink(message_row')
             /\ messages[message_row'].message = link
             /\ \A tr \in playlist_tracks :
                   messages[tr.message_id].message = link => tr.message_id = message_row' ]_vars
    /\ [](\A tr \in playlist_tracks : FirstWithItsLink(tr.message_id))
    /\ [](pc \in {"append", "mark"} =>
             FirstWithItsLink(message_row) /\ messages[message_row].message = link)

\* The link of the current event is carried by two rows, the event's own being
\* the second; the lookup has returned the first.
C13_Witness ==
    /\ pc = "loop"
    /\ message_row = 1
    /\ Len(messages) = 2
    /\ messages[1].message = LinkA /\ messages[2].message = LinkA
    /\ messages[2].sender = event.sender /\ messages[2].timestamp = event.timestamp
    /\ messages[1].sender # event.sender
    /\ track_row(1, playlist_id)

-----------------------------------------------------------------------------
(* C14 *)

\* C14: the same video is never successfully appended twice to the same weekly
\* playlist, whoever shares it, whenever in the week, and in whatever link form.
C14_VideoAppendedOnce ==
    \A i \in 1..Len(appendCalls) :
        appendCalls[i].ok =>
           \A j \in (i + 1)..Len(appendCalls) :
              ~ /\ appendCalls[j].ok
                /\ appendCalls[j].video_id = appendCalls[i].video_id
                /\ appendCalls[j].playlist_id = appendCalls[i].playlist_id

-----------------------------------------------------------------------------
(* C15 *)

\* Page n reports no further pages, or returns a cursor that an earlier page
\* of this backfill has returned.
Repeats(n) ==
    \/ fetchLog[n].end = NoEnd
    \/ \E m \in 1..(n - 1) : fetchLog[m].end = fetchLog[n].end

\* C15: backwards_sync ends at a page that reports no further pages or returns
\* a cursor returned earlier in the backfill, also when that cursor is not the
\* one the page was asked with: such a page is the last one fetched and the
\* loop does not go round again after it.
C15_StopsAtRepeatedCursor ==
    \A n \in 1..Len(fetchLog) :
        Repeats(n) => (n = Len(fetchLog) /\ phase \in {"chunk", "returned"})

-----------------------------------------------------------------------------
(* C16 *)

\* C16: a failing remote create propagates out of message_callback and the
\* processing of that event changes no table, makes no remote append call and
\* sends no reply; after a create that succeeds the playlists row is in the
\* table before any reply is sent or any link is processed.
C16_CreateFailureChangesNothing ==
    /\ [][ (pc = "idle" /\ pc' = "resolve") => UNCHANGED <<db, remote, output>> ]_vars
    /\ [][ (pc' = "raise_make_playlist" /\ pc # "raise_make_playlist") =>
             /\ pc = "resolve"
             /\ ~createCalls'[Len(createCalls')].ok
             /\ UNCHANGED <<db, appendCalls, output>> ]_vars
    /\ [][ pc = "raise_make_playlist" =>
             (pc' = "idle" /\ UNCHANGED <<db, remote>>) ]_vars
    /\ [](pc = "raise_make_playlist" =>
             /\ sent = <<>> /\ printed = <<>>
             /\ \A i \in 1..Len(playlists) : playlists[i].title # title_of_event)
    /\ [][ (Len(createCalls') > Len(createCalls) /\ createCalls'[Len(createCalls')].ok) =>
             /\ playlists' = Append(playlists,
                                    [title |-> createCalls'[Len(createCalls')].title,
                                     playlist_id |-> playlist_id',
                                     creation_date |-> get_monday_date(event.timestamp)])
             /\ UNCHANGED <<messages, playlist_tracks, appendCalls, output>> ]_vars
    /\ []((sent # <<>> \/ printed # <<>> \/ Extracted) =>
             \E i \in 1..Len(playlists) :
                /\ playlists[i].title = title_of_event
                /\ playlists[i].playlist_id = playlist_id)

\* A fresh "!pow" of a week without a playlist, after an earlier week's link was
\* stored and appended: the create has failed and nothing was sent.
C16_Witness ==
    /\ pc = "raise_make_playlist"
    /\ strip(event.body) = <<"!pow">>
    /\ event.age < FreshnessMs
    /\ Len(playlists) = 1
    /\ Len(messages) = 1
    /\ Cardinality(playlist_tracks) = 1
    /\ sent = <<>>

-----------------------------------------------------------------------------
(* C18 *)

\* The body has no path of a video: no link can be extracted from it.
NoVideoPath(body) == \A i \in 1..Len(body) : body[i] \notin {"watch?v=", "youtu.be/"}

\* An event without an extractable link is being processed.
NoLinkEvent == pc # "idle" /\ event # NoEvent /\ NoVideoPath(event.body)

\* C18: the processing of an event whose body has no extractable link changes
\* neither messages nor playlist_tracks, never reaches the classification or the
\* append, and evaluates the two command checks: the clock is read, and a
\* fresh "!pow" is answered.
C18_NoLinkNoWork ==
    /\ [][ NoLinkEvent => UNCHANGED <<messages, playlist_tracks, appendCalls>> ]_vars
    /\ [](NoLinkEvent =>
             /\ pc \in {"resolve", "raise_make_playlist", "cmd", "loop"}
             /\ pc = "loop" => (youtube_links = <<>> /\ li = 1 /\ printed = <<>>))
    /\ [][ (NoLinkEvent /\ pc = "cmd") =>
             /\ pc' = "loop"
             /\ current_time' = event.timestamp + event.age
             /\ Len(sent') = IF /\ strip(event.body) \in {<<"!pow">>, <<"!parkerbot">>}
                                /\ event.age < FreshnessMs
                             THEN 1 ELSE 0 ]_vars

\* A link to a playlist is shared after a video was stored and appended: the
\* handler is about to return with nothing extracted.
C18_Witness ==
    /\ Returning
    /\ event.body = PlaylistOnly
    /\ youtube_links = <<>>
    /\ current_time # NoTime
    /\ Len(messages) = 1
    /\ Cardinality(playlist_tracks) = 1
    /\ Len(appendCalls) = 1

-----------------------------------------------------------------------------
(* C20 *)

\* C20: every playlist_tracks row's playlist_id is the id of a playlists row and
\* its message_id is the id of a messages row, as the FOREIGN KEY clauses say.
C20_ForeignKeysHold ==
    \A tr \in playlist_tracks :
        /\ \E i \in 1..Len(playlists) : tr.playlist_id = playlists_id(i)
        /\ tr.message_id \in 1..Len(messages)

-----------------------------------------------------------------------------
(* C17 *)

\* The playlists the service has created with this title.
RemotePlaylists(title) ==
    { i \in 1..Len(createCalls) : createCalls[i].ok /\ createCalls[i].title = title }

\* The items of playlist pid that the service has been given for link l.
RemoteItems(pid, l) == OkCalls(CallsOn(pid, l))

\* C17: wherever the process is terminated during the processing of an event,
\* once the event is replayed the remote state is that of an uninterrupted
\* processing: one remote playlist per bucket, one remote item per bucket and
\* link, and the local rows that go with them.
C17_ReplayNeedsNoCleanup ==
    /\ \A c \in 1..Len(createCalls) :
          Cardinality(RemotePlaylists(createCalls[c].title)) <= 1
    /\ \A c \in 1..Len(appendCalls) :
          Cardinality(RemoteItems(appendCalls[c].playlist_id, appendCalls[c].link)) <= 1
    /\ \A i \in 1..Len(playlists) :
          Cardinality(RemotePlaylists(playlists[i].title)) = 1

-----------------------------------------------------------------------------
(* C19 *)

\* C19: invocations of message_callback that overtake each other at their
\* awaits never split a check-then-create or a check-then-append-then-mark
\* sequence: a suspended invocation has its playlist resolved and committed and
\* is not inside the link loop; no bucket gets two remote playlists and no link
\* is appended twice to one playlist.
C19_AwaitsSplitNothing ==
    /\ \A k \in 1..Len(waiting) :
          /\ waiting[k].pc \in {"pow", "loop"}
          /\ waiting[k].pc = "loop" => waiting[k].li = 1
          /\ waiting[k].message_row = 0 /\ waiting[k].attempt = 0
          /\ waiting[k].printed = <<>>
          /\ \E i \in 1..Len(playlists) :
                /\ playlists[i].playlist_id = waiting[k].playlist_id
                /\ WeekIndex(playlists[i].creation_date)
                      = WeekIndex(waiting[k].event.timestamp)
    /\ \A i, j \in 1..Len(createCalls) :
          (createCalls[i].ok /\ createCalls[j].ok /\ i # j)
             => createCalls[i].title # createCalls[j].title
    /\ \A i, j \in 1..Len(appendCalls) :
          (appendCalls[i].ok /\ appendCalls[j].ok /\ i # j)
             => \/ appendCalls[i].link # appendCalls[j].link
                \/ appendCalls[i].playlist_id # appendCalls[j].playlist_id

\* While the invocation that created the week's playlist is suspended at its
\* room_send, the invocation for a later event of the week has found the
\* playlist and appended a link to it.
C19_Witness ==
    /\ pc = "mark"
    /\ Len(waiting) = 1
    /\ waiting[1].playlist_id = playlist_id
    /\ waiting[1].sent # <<>>
    /\ Len(createCalls) = 1
    /\ appendCalls[Len(appendCalls)].ok

====
